---- MODULE Spec2Model ----
(***************************************************************************)
(* Model of ParcelsAppCoordinator                                          *)
(* (custom_components/parcelsapp/coordinator.py).                          *)
(*                                                                         *)
(* The coordinator keeps a dict tracking id -> package record, merges API  *)
(* responses into it and rewrites the whole dict to storage after every    *)
(* mutation.  Three entry points touch the dict: the track_package and     *)
(* remove_package service calls and the periodic refresh                   *)
(* (_async_update_data).  They are coroutines on one event loop: each runs *)
(* without interruption between two network awaits, and the steps of       *)
(* different coroutines interleave at those awaits.  One action of this    *)
(* module is one such uninterrupted run, up to and including the trailing  *)
(* _save_tracked_packages call.                                            *)
(*                                                                         *)
(* Python values: a missing dict key is Absent, None is None; f-strings    *)
(* are tuples of their parts; a datetime at minute t is                     *)
(* [rep |-> "datetime", t |-> t] and its isoformat() string is             *)
(* [rep |-> "str", t |-> t].                                               *)
(***************************************************************************)
EXTENDS Integers, Sequences, FiniteSets, TLC

\* ------------------------------------------------------------------ bounds

\* the clock (minutes) stops advancing here
MaxTime == 31
\* minutes that may pass between two steps: lets a token reach the ages
\* 0, 1, 30 and 31
TickSteps == {30, 31}

TrackingIds == {"A", "B"}
Tokens == {"u1"}

\* ------------------------------------------------------- program constants

\* timedelta(minutes=30)
UUID_TTL == 30

\* ---------------------------------------------------------- python values

Absent == "<absent>"
None == "<None>"
NoneT == <<>>

\* the track_package calls made, <<tracking_id, name>>: A with and without
\* a name, B without
TrackCalls == {<<"A", "parcel">>, <<"A", None>>, <<"B", None>>}

\* bool(s) for the strings of the model
Truthy(s) == s \notin {Absent, None, ""}

\* d.get(key) on a string-valued key
DictGet(v) == IF v = Absent THEN None ELSE v

AbsentTime == [rep |-> "absent", t |-> 0]
NoneTime == [rep |-> "None", t |-> 0]
datetime(t) == [rep |-> "datetime", t |-> t]

\* datetime.isoformat()
isoformat(ts) == [rep |-> "str", t |-> ts.t]

\* datetime.fromisoformat()
fromisoformat(ts) == [rep |-> "datetime", t |-> ts.t]

\* d.get("uuid_timestamp")
TimeGet(ts) == IF ts.rep = "absent" THEN NoneTime ELSE ts

\* ------------------------------------------------------------- shipments

NoState == [status |-> Absent, location |-> Absent]

\* a shipment object of the API, a missing key being Absent (strings),
\* <<>> (lists) or NoState (lastState); null is the set of the keys whose
\* value is JSON null (the key is there, shipment.get(key, default) is None)
ShipTransit ==
    [null |-> {},
     status |-> "in_transit",
     lastState |-> [status |-> "Departed", location |-> Absent],
     origin |-> "CN", destination |-> "NL",
     eta |-> [period |-> <<"d1", "d2">>, remaining |-> <<2, 5>>],
     attributes |-> <<[l |-> "days_transit", val |-> "4"],
                      [l |-> "eta", val |-> "e1"],
                      [l |-> "eta", val |-> "e2"]>>,
     states |-> <<[location |-> "Venlo", date |-> 2],
                  [location |-> "Shenzhen", date |-> 1]>>,
     detectedCarrier |-> "PostNL"]

ShipDelivered ==
    [null |-> {},
     status |-> "delivered",
     lastState |-> [status |-> "Delivered", location |-> "Utrecht"],
     origin |-> "CN", destination |-> "NL",
     eta |-> [period |-> <<>>, remaining |-> <<>>],
     attributes |-> <<>>,
     states |-> <<>>,
     detectedCarrier |-> "PostNL"]

Shipments == {ShipTransit, ShipDelivered}

\* _get_eta_ranges: (eta_days_range, eta_date_range), None being <<>>
get_eta_ranges(shipment) ==
    LET eta_period == shipment.eta.period
        eta_remaining == shipment.eta.remaining
        eta_days_range ==
            IF Len(eta_remaining) >= 2
               /\ eta_remaining[1] # -1
               /\ eta_remaining[2] # -1
            THEN <<eta_remaining[1], "-", eta_remaining[2]>>
            ELSE NoneT
        eta_date_range ==
            IF Len(eta_period) >= 2
               /\ Truthy(eta_period[1])
               /\ Truthy(eta_period[2])
            THEN <<eta_period[1], "/", eta_period[2]>>
            ELSE NoneT
    IN  <<eta_days_range, eta_date_range>>

\* next((attr.get("val") for attr in attributes if attr.get("l") == label), None)
FirstAttr(attributes, label) ==
    LET hits == {i \in 1..Len(attributes) : attributes[i].l = label}
    IN  IF hits = {} THEN None
        ELSE DictGet(attributes[CHOOSE i \in hits : \A j \in hits : i <= j].val)

\* _get_expected_delivery
get_expected_delivery(shipment) == FirstAttr(shipment.attributes, "eta")

\* _get_location
get_location(shipment) ==
    LET loc == shipment.lastState.location
        states == shipment.states
        hits == {i \in 1..Len(states) : Truthy(states[i].location)}
    IN  IF Truthy(loc) THEN loc
        ELSE IF hits # {}
             THEN states[CHOOSE i \in hits : \A j \in hits : j <= i].location
             ELSE "undefined"

\* the exception a merge of the shipment raises, "none" if it completes, in
\* the order the merges evaluate: _get_eta_ranges (eta or {}: no exception),
\* _get_expected_delivery (for attr in None), _get_location (lastState or
\* {}, then reversed(None)), the dict display (None.get for lastState and
\* detectedCarrier)
merge_error(shipment) ==
    IF "attributes" \in shipment.null THEN "TypeError"
    ELSE IF /\ "states" \in shipment.null
            /\ ~Truthy(shipment.lastState.location) THEN "TypeError"
    ELSE IF "lastState" \in shipment.null THEN "AttributeError"
    ELSE IF "detectedCarrier" \in shipment.null THEN "AttributeError"
    ELSE "none"

\* --------------------------------------------------------- package records

\* {} : the default of self.tracked_packages.get(tracking_id, {})
EmptyPackage ==
    [status |-> Absent, uuid |-> Absent, uuid_timestamp |-> AbsentTime,
     message |-> Absent, name |-> Absent,
     location |-> Absent, origin |-> Absent, destination |-> Absent,
     eta_days_range |-> NoneT, eta_date_range |-> NoneT,
     expected_delivery |-> Absent, carrier |-> Absent,
     days_in_transit |-> Absent]

\* the keys written from a shipment by all three merges
\* ({**existing_package_data, "status": ..., "message": ..., ...}); the
\* "last_updated" key, which nothing reads, is left out of the records
shipment_merge(existing, shipment) ==
    [existing EXCEPT
        !.status = IF shipment.status = Absent THEN "unknown" ELSE shipment.status,
        !.message = IF shipment.lastState.status = Absent
                    THEN "No status available" ELSE shipment.lastState.status,
        !.location = get_location(shipment),
        !.origin = DictGet(shipment.origin),
        !.destination = DictGet(shipment.destination),
        !.eta_days_range = get_eta_ranges(shipment)[1],
        !.eta_date_range = get_eta_ranges(shipment)[2],
        !.expected_delivery = get_expected_delivery(shipment),
        !.carrier = DictGet(shipment.detectedCarrier),
        !.days_in_transit = FirstAttr(shipment.attributes, "days_transit")]

\* ------------------------------------------------------------- the dict

\* a dict is the sequence of its items [k, v] in insertion order
Keys(d) == {d[i].k : i \in 1..Len(d)}
Has(d, key) == key \in Keys(d)
IndexOf(d, key) == CHOOSE i \in 1..Len(d) : d[i].k = key

\* d.get(key, {})
Get(d, key) == IF Has(d, key) THEN d[IndexOf(d, key)].v ELSE EmptyPackage

\* d[key] = value
Put(d, key, value) ==
    IF Has(d, key)
    THEN [d EXCEPT ![IndexOf(d, key)].v = value]
    ELSE Append(d, [k |-> key, v |-> value])

\* del d[key]
Del(d, key) ==
    LET i == IndexOf(d, key)
    IN  SubSeq(d, 1, i - 1) \o SubSeq(d, i + 1, Len(d))

\* ------------------------------------------------------------ API answers

\* what one HTTP exchange yields: error is the exception it raises ("none":
\* a parsed JSON body), uuid / shipments / done are the keys of the body
Response(error, uuid, shipments, done) ==
    [error |-> error, uuid |-> uuid, shipments |-> shipments, done |-> done]

\* {} : also the filler of a coroutine that awaits nothing
NoResponse == Response("none", Absent, <<>>, FALSE)

\* raise_for_status() / connection failure: aiohttp.ClientError
ClientError == Response("ClientError", Absent, <<>>, FALSE)
\* json.loads() / response.json() on a body that is no JSON
JSONDecodeError == Response("JSONDecodeError", Absent, <<>>, FALSE)
\* async_timeout.timeout(10) expiring
TimeoutError == Response("TimeoutError", Absent, <<>>, FALSE)

\* JSON bodies with a shipment list: complete (done) for each shipment of
\* the model, and one still loading (done = false) that already lists a
\* shipment
ShipmentBodies ==
    {Response("none", Absent, <<s>>, TRUE) : s \in Shipments}
    \cup {Response("none", Absent, <<ShipTransit>>, FALSE)}

\* answers to POST /shipments/tracking
PostResponses ==
    {Response("none", u, <<>>, FALSE) : u \in Tokens}
    \cup ShipmentBodies
    \cup {NoResponse, ClientError, JSONDecodeError}

\* answers to GET /shipments/tracking?uuid=...
GetResponses ==
    ShipmentBodies \cup {NoResponse, ClientError, JSONDecodeError}

\* answers to GET https://parcelsapp.com/
ProbeResponses == {NoResponse, ClientError, TimeoutError}

\* ------------------------------------------------------------------ state

VARIABLES
    tracked_packages,   \* self.tracked_packages
    persisted,          \* what self.store holds on disk
    now,                \* datetime.now(), in minutes
    refresh_requested,  \* a refresh asked for by async_request_refresh()
    poll                \* the refresh coroutine (_async_update_data)

vars == <<tracked_packages, persisted, now, refresh_requested, poll>>

\* pc: idle | failed (the last refresh raised) | probe | loop | resubmit | fetch
\* it: position of the dict iterator; used: len(dict) when it was created
\* held: the coroutine came to this point without awaiting and runs on: no
\* other coroutine gets the event loop before its next step
PollAt(pc, it, used, tracking_id, uuid, resp) ==
    [pc |-> pc, it |-> it, used |-> used, tracking_id |-> tracking_id,
     uuid |-> uuid, resp |-> resp, held |-> FALSE]

Held(p) == [p EXCEPT !.held = TRUE]

PollIdle == PollAt("idle", 0, 0, None, None, NoResponse)

Init ==
    /\ tracked_packages = <<>>
    /\ persisted = <<>>
    /\ now = 0
    /\ refresh_requested = FALSE
    /\ poll = PollIdle

\* ------------------------------------------------------------ persistence

\* the loop of _save_tracked_packages: datetime -> isoformat string, in place
save_convert(d) ==
    [i \in 1..Len(d) |->
        [d[i] EXCEPT !.v.uuid_timestamp =
            IF @.rep = "datetime" THEN isoformat(@) ELSE @]]

\* _save_tracked_packages, run on the dict d the caller has just built:
\* convert in place, store.async_save(whole dict), async_request_refresh()
save_tracked_packages(d) ==
    /\ tracked_packages' = save_convert(d)
    /\ persisted' = save_convert(d)
    /\ refresh_requested' = TRUE

\* _load_tracked_packages: isoformat string -> datetime
load_tracked_packages(stored_data) ==
    [i \in 1..Len(stored_data) |->
        [stored_data[i] EXCEPT !.v.uuid_timestamp =
            IF @.rep = "str" THEN fromisoformat(@) ELSE @]]

\* a (re)start of the integration: a new coordinator, then async_init
async_init ==
    /\ poll.pc \in {"idle", "failed"}
    /\ tracked_packages' = load_tracked_packages(persisted)
    /\ poll' = PollIdle
    /\ refresh_requested' = FALSE
    /\ UNCHANGED <<persisted, now>>

\* no coroutine touched the store
StoreUnchanged == UNCHANGED <<tracked_packages, persisted, refresh_requested>>

\* ----------------------------------------------------------- track_package

\* mutant of name_or_existing: "name": name
name_as_given(name, existing) == DictGet(name)

\* name or existing_package_data.get("name")
name_or_existing(name, existing) ==
    IF Truthy(name) THEN name ELSE DictGet(existing.name)

\* the "uuid" in data branch
track_pending(existing, data, name, clock) ==
    [existing EXCEPT
        !.status = "pending",
        !.uuid = data.uuid,
        !.uuid_timestamp = datetime(clock),
        !.message = "Tracking initiated",
        !.name = name_or_existing(name, existing)]

\* the "shipments" in data branch
track_shipment(existing, shipment, name) ==
    [shipment_merge(existing, shipment) EXCEPT
        !.uuid = None,
        !.uuid_timestamp = NoneTime,
        !.name = name_or_existing(name, existing)]

\* track_package from the moment the answer of its POST arrives (before
\* that the coroutine has only sent the request): data is the answer
track_package(tracking_id, name, data) ==
    /\ ~poll.held
    /\ LET existing_package_data == Get(tracked_packages, tracking_id)
       IN  IF data.error # "none"
           THEN StoreUnchanged
           ELSE IF data.uuid # Absent
           THEN save_tracked_packages(
                    Put(tracked_packages, tracking_id,
                        track_pending(existing_package_data, data, name, now)))
           ELSE IF data.shipments # <<>>
           THEN IF merge_error(data.shipments[1]) # "none"
                \* neither except clause catches it: the call raises
                THEN StoreUnchanged
                ELSE save_tracked_packages(
                         Put(tracked_packages, tracking_id,
                             track_shipment(existing_package_data,
                                            data.shipments[1], name)))
           ELSE StoreUnchanged
    /\ UNCHANGED <<now, poll>>

\* ---------------------------------------------------------- remove_package

\* mutant of remove_package: the deletion is not saved
remove_package_unsaved(tracking_id) ==
    /\ ~poll.held
    /\ IF Has(tracked_packages, tracking_id)
       THEN /\ tracked_packages' = Del(tracked_packages, tracking_id)
            /\ UNCHANGED <<persisted, refresh_requested>>
       ELSE StoreUnchanged
    /\ UNCHANGED <<now, poll>>

\* del d[key] under the iterator of update_tracked_packages.  The iterator
\* holds an index into the entries of the dict: deleting an item it has
\* passed leaves it at the same item (position - 1 in the sequence of the
\* items left) unless the dict is compacted by a later insertion, after
\* which it has moved one item on (the same position).  Both are outcomes.
iterator_after_del(d, key) ==
    IF poll.pc \in {"loop", "resubmit", "fetch"} /\ IndexOf(d, key) < poll.it
    THEN {poll, [poll EXCEPT !.it = @ - 1]}
    ELSE {poll}

\* mutant of remove_package: the dict is saved also when the id is not in it
remove_package_saves_absent(tracking_id) ==
    /\ ~poll.held
    /\ IF Has(tracked_packages, tracking_id)
       THEN /\ save_tracked_packages(Del(tracked_packages, tracking_id))
            /\ poll' \in iterator_after_del(tracked_packages, tracking_id)
       ELSE save_tracked_packages(tracked_packages) /\ UNCHANGED poll
    /\ UNCHANGED now

remove_package(tracking_id) ==
    /\ ~poll.held
    /\ IF Has(tracked_packages, tracking_id)
       THEN /\ save_tracked_packages(Del(tracked_packages, tracking_id))
            /\ poll' \in iterator_after_del(tracked_packages, tracking_id)
       ELSE StoreUnchanged /\ UNCHANGED poll
    /\ UNCHANGED now

\* ------------------------------------------------------------ the refresh

\* the refresh timer of the DataUpdateCoordinator fires: _async_update_data
\* starts and awaits the status probe.  Starting a refresh drops a pending
\* refresh request.
refresh_interval ==
    /\ poll.pc \in {"idle", "failed"}
    /\ poll' = PollAt("probe", 0, 0, None, None, NoResponse)
    /\ refresh_requested' = FALSE
    /\ UNCHANGED <<tracked_packages, persisted, now>>

\* a refresh asked for by _save_tracked_packages starts
requested_refresh ==
    /\ refresh_requested
    /\ poll.pc \in {"idle", "failed"}
    /\ poll' = PollAt("probe", 0, 0, None, None, NoResponse)
    /\ refresh_requested' = FALSE
    /\ UNCHANGED <<tracked_packages, persisted, now>>

\* the refresh raised: err is what it raised, in the update of
\* poll.tracking_id (None: outside update_package)
PollFailed(err) == PollAt("failed", 0, 0, poll.tracking_id, None, err)

\* the answer r of the status probe arrives: _fetch_parcels_app_status
\* returns or raises; on return update_tracked_packages creates the iterator
\* of the dict
fetch_parcels_app_status_resume(r) ==
    /\ poll.pc = "probe"
    /\ poll' = IF r.error = "none"
               THEN Held(PollAt("loop", 1, Len(tracked_packages), None, None,
                                NoResponse))
               ELSE PollFailed(r)
    /\ UNCHANGED <<tracked_packages, persisted, now, refresh_requested>>

\* package_data.get("status") not in ["delivered", "archived"]
needs_update(package_data) ==
    package_data.status \notin {"delivered", "archived"}

\* the first item at or after position it that the loop updates
RECURSIVE NextActive(_, _)
NextActive(d, it) ==
    IF it > Len(d) THEN it
    ELSE IF needs_update(d[it].v) THEN it
    ELSE NextActive(d, it + 1)

\* mutant of uuid_expired: a token of exactly 30 minutes counts as expired
uuid_expired_at_ttl(uuid_timestamp, clock) ==
    LET ts == IF uuid_timestamp.rep = "str"
              THEN fromisoformat(uuid_timestamp) ELSE uuid_timestamp
    IN  IF ts.rep = "datetime"
        THEN clock - ts.t >= UUID_TTL
        ELSE TRUE

\* update_package, lines 235-245
uuid_expired(uuid_timestamp, clock) ==
    LET ts == IF uuid_timestamp.rep = "str"
              THEN fromisoformat(uuid_timestamp) ELSE uuid_timestamp
    IN  IF ts.rep = "datetime"
        THEN clock - ts.t > UUID_TTL
        ELSE TRUE

\* if uuid_expired or not uuid
needs_new_uuid(uuid, uuid_timestamp, clock) ==
    uuid_expired(uuid_timestamp, clock) \/ ~Truthy(uuid)

\* dictionary changed size during iteration
RuntimeError == Response("RuntimeError", Absent, <<>>, FALSE)

\* the for loop of update_tracked_packages moves on: the next item that needs
\* an update starts update_package, which sends the POST of get_new_uuid or
\* the GET of _fetch_shipment_data and awaits the answer
update_tracked_packages_next ==
    /\ poll.pc = "loop"
    /\ IF Len(tracked_packages) # poll.used
       THEN poll' = PollAt("failed", 0, 0, None, None, RuntimeError)
       ELSE LET it == NextActive(tracked_packages, poll.it)
            IN  IF it > Len(tracked_packages)
                THEN poll' = PollIdle
                ELSE LET tracking_id == tracked_packages[it].k
                         package_data == tracked_packages[it].v
                         uuid == DictGet(package_data.uuid)
                         uuid_timestamp == TimeGet(package_data.uuid_timestamp)
                     IN  IF needs_new_uuid(uuid, uuid_timestamp, now)
                         THEN poll' = PollAt("resubmit", it + 1, poll.used,
                                             tracking_id, uuid, NoResponse)
                         ELSE poll' = PollAt("fetch", it + 1, poll.used,
                                             tracking_id, uuid, NoResponse)
    /\ UNCHANGED <<tracked_packages, persisted, now, refresh_requested>>

\* mutant of update_new_uuid: the timestamp of the new token is not stored
update_new_uuid_untimed(package_data, new_uuid, new_uuid_timestamp) ==
    [package_data EXCEPT !.uuid = new_uuid]

\* update_package, lines 284-287: the new token and its timestamp
update_new_uuid(package_data, new_uuid, new_uuid_timestamp) ==
    [package_data EXCEPT
        !.uuid = new_uuid,
        !.uuid_timestamp = new_uuid_timestamp]

\* update_package went through: back in the for loop, data being the answer
\* it handled (after a merge the coroutine has awaited the store in
\* _save_tracked_packages, lines 122-123)
PollBack(data) ==
    PollAt("loop", poll.it, poll.used, poll.tracking_id, None, data)

\* an exception of the exchange that the coroutine does not catch: the
\* refresh raises and the for loop is left
raised(data) ==
    /\ poll' = PollFailed(data)
    /\ StoreUnchanged

\* mutant of client_error: a failed exchange drops the token of the record
client_error_drops_token(data) ==
    /\ poll' = PollBack(data)
    /\ save_tracked_packages(
           Put(tracked_packages, poll.tracking_id,
               [Get(tracked_packages, poll.tracking_id) EXCEPT
                    !.uuid = None, !.uuid_timestamp = NoneTime]))

\* except aiohttp.ClientError: logged; update_package returns
client_error(data) ==
    /\ poll' = Held(PollBack(data))
    /\ StoreUnchanged

\* an answer with nothing to merge: logged; update_package returns
nothing_to_merge(data) ==
    /\ poll' = Held(PollBack(data))
    /\ StoreUnchanged

\* mutant of merge_shipment: the merge starts from an empty record, not
\* from the record the dict holds when the answer is handled
merge_shipment_from_empty(data) ==
    IF merge_error(data.shipments[1]) # "none"
    THEN raised([data EXCEPT !.error = merge_error(data.shipments[1])])
    ELSE /\ save_tracked_packages(
                Put(tracked_packages, poll.tracking_id,
                    shipment_merge(EmptyPackage, data.shipments[1])))
         /\ poll' = PollBack(data)

\* the shipment of the answer is merged into the record of the id and the
\* dict saved (lines 252-282 and 390-420)
merge_shipment(data) ==
    IF merge_error(data.shipments[1]) # "none"
    THEN raised([data EXCEPT !.error = merge_error(data.shipments[1])])
    ELSE /\ save_tracked_packages(
                Put(tracked_packages, poll.tracking_id,
                    shipment_merge(Get(tracked_packages, poll.tracking_id),
                                   data.shipments[1])))
         /\ poll' = PollBack(data)

\* get_new_uuid: elif "shipments" in data and data["shipments"]
has_shipments(data) == data.shipments # <<>>

\* mutant of shipment_done: done is not looked at
shipment_listed(data) == data.shipments # <<>>

\* _fetch_shipment_data: if data.get("done") and data.get("shipments")
shipment_done(data) == data.done /\ data.shipments # <<>>

\* the answer data of get_new_uuid's POST arrives: the rest of get_new_uuid
\* and of update_package; after a new token the GET of _fetch_shipment_data
\* is sent
get_new_uuid_resume(data) ==
    /\ poll.pc = "resubmit"
    /\ IF data.error = "JSONDecodeError"
       THEN raised(data)
       ELSE IF data.error # "none"
       THEN client_error(data)
       ELSE IF data.uuid # Absent
       THEN IF Truthy(data.uuid)
            THEN /\ save_tracked_packages(
                        Put(tracked_packages, poll.tracking_id,
                            update_new_uuid(
                                Get(tracked_packages, poll.tracking_id),
                                data.uuid, datetime(now))))
                 /\ poll' = PollAt("fetch", poll.it, poll.used,
                                   poll.tracking_id, data.uuid, NoResponse)
            ELSE nothing_to_merge(data)
       ELSE IF has_shipments(data)
       THEN merge_shipment(data)
       ELSE nothing_to_merge(data)
    /\ UNCHANGED now

\* the answer data of the GET arrives: the rest of _fetch_shipment_data
fetch_shipment_data_resume(data) ==
    /\ poll.pc = "fetch"
    /\ IF data.error = "JSONDecodeError"
       THEN raised(data)
       ELSE IF data.error # "none"
       THEN client_error(data)
       ELSE IF shipment_done(data)
       THEN merge_shipment(data)
       ELSE nothing_to_merge(data)
    /\ UNCHANGED now

\* -------------------------------------------------------------------- time

Tick(d) ==
    /\ ~poll.held
    /\ now + d <= MaxTime
    /\ now' = now + d
    /\ UNCHANGED <<tracked_packages, persisted, refresh_requested, poll>>

\* ------------------------------------------------------------------- spec

Next ==
    \/ \E c \in TrackCalls, r \in PostResponses :
          track_package(c[1], c[2], r)
    \/ \E id \in TrackingIds : remove_package(id)
    \/ refresh_interval
    \/ requested_refresh
    \/ \E r \in ProbeResponses : fetch_parcels_app_status_resume(r)
    \/ update_tracked_packages_next
    \/ \E r \in PostResponses : get_new_uuid_resume(r)
    \/ \E r \in GetResponses : fetch_shipment_data_resume(r)
    \/ \E d \in TickSteps : Tick(d)
    \/ async_init

Spec == Init /\ [][Next]_vars

\* ----------------------------------------------------------------- claims

Token(package_data) == DictGet(package_data.uuid)
TokenTime(package_data) == TimeGet(package_data.uuid_timestamp)
HasTime(package_data) == TokenTime(package_data).rep \in {"datetime", "str"}
NoToken(package_data) ==
    Token(package_data) = None /\ TokenTime(package_data) = NoneTime

\* a step of the refresh that handles the answer to the POST of get_new_uuid
\* (kind = "resubmit") or to the GET of _fetch_shipment_data (kind = "fetch")
\* and goes back to the for loop: poll'.resp is the answer handled
Handled(kind) == poll.pc = kind /\ poll'.pc = "loop"

\* a step of the refresh that leaves update_package with an exception
Raised(kind) == poll.pc = kind /\ poll'.pc = "failed"

\* a step of the track_package call c whose POST is answered r
TrackStep(c, r) ==
    /\ poll' = poll
    /\ now' = now
    /\ track_package(c[1], c[2], r)

\* the answer resolves a shipment: a shipment list in the answer to a
\* submission, done = true and a shipment list in the answer to a token poll
ResolvesPost(r) == r.error = "none" /\ r.uuid = Absent /\ r.shipments # <<>>
ResolvesGet(r) == r.error = "none" /\ r.done /\ r.shipments # <<>>

\* C1 (as claimed): every step that merges a resolved shipment (track_package,
\* the re-submission of a poll-cycle update, the token poll) leaves the record
\* of that id without session token and token timestamp.
C1_ShipmentClearsToken ==
    [][/\ (Handled("resubmit") /\ ResolvesPost(poll'.resp))
            => NoToken(Get(tracked_packages', poll.tracking_id))
       /\ (Handled("fetch") /\ ResolvesGet(poll'.resp))
            => NoToken(Get(tracked_packages', poll.tracking_id))
       /\ \A c \in TrackCalls, r \in ShipmentBodies :
            TrackStep(c, r) => NoToken(Get(tracked_packages', c[1]))]_vars

\* C2: when update_package starts for an item of the dict, it goes to the
\* token poll with the stored token exactly when the token is present and
\* at most 30 minutes old, and else re-submits; a token poll is only ever
\* reached from there or from a re-submission that stored a new token.
C2_TokenReuse ==
    [][/\ (poll.pc = "loop" /\ poll'.pc \in {"resubmit", "fetch"})
            => LET item == tracked_packages[poll'.it - 1]
                   valid == /\ Token(item.v) \notin {None, ""}
                            /\ HasTime(item.v)
                            /\ now - TokenTime(item.v).t <= 30
               IN  /\ poll'.tracking_id = item.k
                   /\ poll'.pc = "fetch" <=> valid
                   /\ poll'.pc = "fetch" => poll'.uuid = Token(item.v)
       /\ (poll'.pc = "fetch" /\ poll.pc # "fetch")
            => \/ poll.pc = "loop"
               \/ /\ poll.pc = "resubmit"
                  /\ Token(Get(tracked_packages', poll.tracking_id))
                        = poll'.uuid]_vars

\* a token poll in flight with the stored token, which is exactly 30 minutes old
C2_Witness ==
    /\ poll.pc = "fetch"
    /\ Has(tracked_packages, poll.tracking_id)
    /\ LET package_data == Get(tracked_packages, poll.tracking_id)
       IN  /\ Token(package_data) = poll.uuid
           /\ HasTime(package_data)
           /\ now - TokenTime(package_data).t = 30

\* C3: a record whose name is set keeps a set name in every step that keeps
\* the record (whatever track_package call, poll-cycle update, removal of
\* another id or load the step is); a shipment merged by a poll-cycle update
\* gives the record the shipment's status and leaves its name as it was.
C3_NamePreserved ==
    [][/\ \A id \in TrackingIds :
            (/\ Has(tracked_packages, id)
             /\ Has(tracked_packages', id)
             /\ Truthy(Get(tracked_packages, id).name))
                => Truthy(Get(tracked_packages', id).name)
       /\ (\/ Handled("resubmit") /\ ResolvesPost(poll'.resp)
           \/ Handled("fetch") /\ ResolvesGet(poll'.resp))
            => LET before == Get(tracked_packages, poll.tracking_id)
                   after == Get(tracked_packages', poll.tracking_id)
               IN  /\ after.status = poll'.resp.shipments[1].status
                   /\ after.name = before.name]_vars

\* a named record that a token answer created and a token poll resolved
C3_Witness ==
    \E i \in 1..Len(tracked_packages) :
        /\ tracked_packages[i].v.name = "parcel"
        /\ tracked_packages[i].v.status = "in_transit"
        /\ tracked_packages[i].v.uuid = "u1"

AllTimed(d) ==
    \A i \in 1..Len(d) : Token(d[i].v) # None => HasTime(d[i].v)

\* C4: every record with a session token has a token timestamp, in memory
\* and in storage.
C4_TokenHasTimestamp == AllTimed(tracked_packages) /\ AllTimed(persisted)

\* a record loaded from storage with its token and timestamp
C4_Witness ==
    \E i \in 1..Len(tracked_packages) :
        /\ tracked_packages[i].v.uuid = "u1"
        /\ tracked_packages[i].v.uuid_timestamp.rep = "datetime"

\* the store as the three entry points can change it; refresh_requested
\* changes with every call of _save_tracked_packages made while it is FALSE
NoWrite == UNCHANGED <<tracked_packages, persisted, refresh_requested>>

\* C5: a step that handles a transport error or an unparseable body (in
\* track_package, in the re-submission, in the token poll) changes no record
\* and writes nothing.
C5_FailureLeavesStore ==
    [][/\ \A kind \in {"resubmit", "fetch"} :
            ((Handled(kind) \/ Raised(kind)) /\ poll'.resp.error # "none")
                => NoWrite
       /\ \A c \in TrackCalls, r \in {ClientError, JSONDecodeError} :
            TrackStep(c, r) => NoWrite]_vars

\* a poll-cycle update has met a transport error; the record still holds
\* its token
C5_Witness ==
    /\ poll.pc = "loop"
    /\ poll.resp.error = "ClientError"
    /\ Has(tracked_packages, poll.tracking_id)
    /\ Token(Get(tracked_packages, poll.tracking_id)) = "u1"
    /\ ~refresh_requested

\* C6 (as claimed): a transport or parse failure in the update of one id
\* changes nothing and the for loop goes on; the refresh does not raise.
C6_FailureStaysInCycle ==
    [][\A kind \in {"resubmit", "fetch"} :
            (poll.pc = kind /\ poll' # poll /\ poll'.resp.error # "none")
                => (poll'.pc = "loop" /\ NoWrite)]_vars

\* C7 (as claimed): whatever the status probe answers, the refresh goes on
\* to the for loop over the tracked packages.
C7_ProbeFailureUpdates ==
    [][(poll.pc = "probe" /\ poll' # poll) => poll'.pc = "loop"]_vars

\* C8: every step that changes the dict in memory is the load at startup or
\* writes the whole dict: storage then equals memory; and storage changes
\* in no other step.
C8_MutationSaved ==
    [][/\ tracked_packages' # tracked_packages
            => \/ persisted' = tracked_packages'
               \/ /\ persisted' = persisted
                  /\ tracked_packages' = load_tracked_packages(persisted)
       /\ persisted' # persisted => persisted' = tracked_packages']_vars

\* both ids tracked, one removed again, and storage holds what memory holds
C8_Witness ==
    /\ Len(tracked_packages) = 1
    /\ tracked_packages[1].k = "B"
    /\ tracked_packages[1].v.uuid = "u1"
    /\ persisted = tracked_packages

\* ---------------------------------------------------------------- liveness

\* the refresh under fair scheduling: the timer keeps firing and every
\* awaited exchange ends (with an answer or an exception).  Each package is
\* tracked once, without name, and never removed.
LiveNext ==
    \/ \E id \in TrackingIds, r \in PostResponses :
          ~Has(tracked_packages, id) /\ track_package(id, None, r)
    \/ refresh_interval
    \/ \E r \in ProbeResponses : fetch_parcels_app_status_resume(r)
    \/ update_tracked_packages_next
    \/ \E r \in PostResponses : get_new_uuid_resume(r)
    \/ \E r \in GetResponses : fetch_shipment_data_resume(r)
    \/ \E d \in TickSteps : Tick(d)

LiveSpec ==
    /\ Init
    /\ [][LiveNext]_vars
    /\ WF_vars(refresh_interval)
    /\ WF_vars(\E r \in ProbeResponses : fetch_parcels_app_status_resume(r))
    /\ WF_vars(update_tracked_packages_next)
    /\ WF_vars(\E r \in PostResponses : get_new_uuid_resume(r))
    /\ WF_vars(\E r \in GetResponses : fetch_shipment_data_resume(r))

Pending(id) ==
    /\ Has(tracked_packages, id)
    /\ Get(tracked_packages, id).status = "pending"

\* every answer the refresh has handled for the id is a complete shipment
\* (a token answered to a re-submission is followed by its token poll)
GoodAnswers(id) ==
    (poll.pc \in {"loop", "failed"} /\ poll.tracking_id = id)
        => ResolvesGet(poll.resp)

\* C9 (as claimed): with refreshes running for ever, a pending record whose
\* polls and re-submissions are, from some point on, all answered with a
\* complete shipment eventually leaves status "pending".
C9_PendingResolves ==
    \A id \in TrackingIds :
        (<>[]GoodAnswers(id)) => (Pending(id) ~> ~Pending(id))

\* an answer without token and without shipment to merge
NoopPost(r) == r.error = "none" /\ r.uuid = Absent /\ r.shipments = <<>>
NoopGet(r) == r.error = "none" /\ (~r.done \/ r.shipments = <<>>)

\* C10: a step that handles an answer that is neither a token nor a
\* shipment list (for a token poll: done = false, or no shipment) changes no
\* record and writes nothing.
C10_NoopMerge ==
    [][/\ (Handled("resubmit") /\ NoopPost(poll'.resp)) => NoWrite
       /\ (Handled("fetch") /\ NoopGet(poll'.resp)) => NoWrite
       /\ \A c \in TrackCalls, r \in {NoResponse} :
            TrackStep(c, r) => NoWrite]_vars

\* a token poll was answered done = false with a shipment listed, and the
\* record is still pending
C10_Witness ==
    /\ poll.pc = "loop"
    /\ poll.resp.error = "none"
    /\ ~poll.resp.done
    /\ poll.resp.shipments # <<>>
    /\ poll.uuid = None
    /\ Has(tracked_packages, poll.tracking_id)
    /\ Get(tracked_packages, poll.tracking_id).status = "pending"

\* ------------------------------------------------------------ remove_package

\* a step of the remove_package call for id
RemoveStep(id) ==
    /\ now' = now
    /\ remove_package(id)

\* C11: remove_package of an id that is not in the dict changes no record,
\* keeps the same ids, writes nothing and requests no refresh; the refresh
\* in progress is not disturbed.
C11_RemoveAbsentNoop ==
    [][\A id \in TrackingIds :
          (~Has(tracked_packages, id) /\ RemoveStep(id))
              => (NoWrite /\ poll' = poll)]_vars

\* A is tracked and B is not, storage equals memory and no refresh is asked
\* for: the state a remove_package("B") starts in and ends in
C11_Witness ==
    /\ Keys(tracked_packages) = {"A"}
    /\ persisted = tracked_packages
    /\ ~refresh_requested
    /\ poll.pc = "idle"

\* ------------------------------------------------------------- the for loop

\* C12 (as claimed): the for loop starts an update for the next item of the
\* dict that is not delivered or archived, in dict order, and ends only
\* after the last one; an update that ends hands back to the for loop (or,
\* after a new token, goes on to the token poll of the same id).
C12_SequentialCycle ==
    [][/\ (poll.pc = "loop" /\ poll'.pc # "loop")
            => LET it == NextActive(tracked_packages, poll.it)
               IN  IF it > Len(tracked_packages)
                   THEN poll'.pc = "idle"
                   ELSE /\ poll'.pc \in {"resubmit", "fetch"}
                        /\ poll'.tracking_id = tracked_packages[it].k
                        /\ poll'.it = it + 1
       /\ (poll.pc \in {"resubmit", "fetch"} /\ poll'.pc # poll.pc)
            => /\ poll'.pc \in {"loop", "fetch"}
               /\ poll'.tracking_id = poll.tracking_id
               /\ poll'.it = poll.it]_vars

\* ------------------------------------------------------ the shipment helpers

\* the shipment keys that the helpers and the merges read with a default
NullableKeys == {"eta", "attributes", "states", "lastState", "detectedCarrier"}

\* the shipment with JSON null as the value of key
Nulled(shipment, key) ==
    [shipment EXCEPT
        !.null = {key},
        !.eta = IF key = "eta" THEN [period |-> <<>>, remaining |-> <<>>] ELSE @,
        !.attributes = IF key = "attributes" THEN <<>> ELSE @,
        !.states = IF key = "states" THEN <<>> ELSE @,
        !.lastState = IF key = "lastState" THEN NoState ELSE @,
        !.detectedCarrier = IF key = "detectedCarrier" THEN Absent ELSE @]

\* ShipTransit with its states listed oldest first and one "eta" attribute
ShipOldestFirst ==
    [ShipTransit EXCEPT
        !.states = <<[location |-> "Shenzhen", date |-> 1],
                     [location |-> "Venlo", date |-> 2]>>,
        !.attributes = <<[l |-> "eta", val |-> "e1"]>>]

\* the shipments the helpers are applied to: states newest first and oldest
\* first, several / one / no "eta" attribute, and one key null at a time
MergeShipments ==
    {ShipTransit, ShipOldestFirst, ShipDelivered}
    \cup {Nulled(ShipTransit, key) : key \in NullableKeys}

\* complete answers, one per shipment
MergeBodies == {Response("none", Absent, <<s>>, TRUE) : s \in MergeShipments}

\* the token answer of the POST
TokenBodies == {Response("none", u, <<>>, FALSE) : u \in Tokens}

\* package A is tracked and polled, every answer with a shipment being one
\* of MergeBodies: each merge applies _get_eta_ranges,
\* _get_expected_delivery and _get_location to the shipment drawn
MergeNext ==
    \/ \E r \in TokenBodies \cup MergeBodies : track_package("A", None, r)
    \/ refresh_interval
    \/ \E r \in ProbeResponses : fetch_parcels_app_status_resume(r)
    \/ update_tracked_packages_next
    \/ \E r \in TokenBodies \cup MergeBodies : get_new_uuid_resume(r)
    \/ \E r \in MergeBodies \cup {NoResponse} : fetch_shipment_data_resume(r)

MergeSpec == Init /\ [][MergeNext]_vars

\* a step of the refresh that merged the shipment poll'.resp.shipments[1]
\* into the record of poll.tracking_id
PollMerged ==
    \/ Handled("resubmit") /\ ResolvesPost(poll'.resp)
    \/ Handled("fetch") /\ ResolvesGet(poll'.resp)

\* a step of track_package("A") that merged the shipment of the answer r
TrackMerged(r) ==
    /\ merge_error(r.shipments[1]) = "none"
    /\ TrackStep(<<"A", None>>, r)

\* the states of the shipment that have a location
Located(shipment) ==
    {i \in 1..Len(shipment.states) : Truthy(shipment.states[i].location)}

\* two states with a location and different dates
TwoDates(shipment) ==
    \E i, j \in Located(shipment) :
        shipment.states[i].date < shipment.states[j].date

\* the location of the state with the latest date
LatestLocation(shipment) ==
    LET i == CHOOSE i \in Located(shipment) :
                 \A j \in Located(shipment) :
                     shipment.states[j].date <= shipment.states[i].date
    IN  shipment.states[i].location

\* C13 (as claimed): a merge of a shipment whose states carry locations at
\* two dates stores the location of the state with the latest date, whatever
\* the order of the list.
C13_LatestLocation ==
    [][/\ (PollMerged /\ TwoDates(poll'.resp.shipments[1]))
            => Get(tracked_packages', poll.tracking_id).location
                   = LatestLocation(poll'.resp.shipments[1])
       /\ \A r \in MergeBodies :
            (TrackMerged(r) /\ TwoDates(r.shipments[1]))
                => Get(tracked_packages', "A").location
                       = LatestLocation(r.shipments[1])]_vars

\* the value of the last attribute with the label, None without one
LastAttr(attributes, label) ==
    LET hits == {i \in 1..Len(attributes) : attributes[i].l = label}
    IN  IF hits = {} THEN None
        ELSE DictGet(attributes[CHOOSE i \in hits : \A j \in hits : j <= i].val)

\* C14 (as claimed): a merge stores as expected_delivery the value of the
\* last "eta" attribute of the shipment in list order, None without one.
C14_LastEtaWins ==
    [][/\ PollMerged
            => Get(tracked_packages', poll.tracking_id).expected_delivery
                   = LastAttr(poll'.resp.shipments[1].attributes, "eta")
       /\ \A r \in MergeBodies :
            TrackMerged(r)
                => Get(tracked_packages', "A").expected_delivery
                       = LastAttr(r.shipments[1].attributes, "eta")]_vars

\* C15 (as claimed): the merge of a complete answer never raises, whatever
\* shipment key is missing or null: the update hands back to the for loop
\* with the shipment's status stored.
C15_MergeNeverRaises ==
    [][\A kind \in {"resubmit", "fetch"} :
          (/\ poll.pc = kind
           /\ poll'.pc # kind
           /\ poll'.resp.error \notin {"ClientError", "JSONDecodeError"}
           /\ poll'.resp.done
           /\ poll'.resp.shipments # <<>>)
              => /\ poll'.pc = "loop"
                 /\ Get(tracked_packages', poll.tracking_id).status
                        = poll'.resp.shipments[1].status]_vars

\* -------------------------------------------------------------- interleaving

\* C16 (as claimed): an id comes into the dict, and into storage, only by a
\* track_package call for it: after remove_package(id) the id stays out
\* until the next track_package(id), whatever update was in flight.
C16_RemovedStaysRemoved ==
    [][\A id \in TrackingIds :
          (\/ ~Has(tracked_packages, id) /\ Has(tracked_packages', id)
           \/ ~Has(persisted, id) /\ Has(persisted', id))
              => \E c \in TrackCalls, r \in PostResponses :
                    c[1] = id /\ TrackStep(c, r)]_vars

\* a step of a track_package call that wrote a record: the refresh and the
\* clock stand still, the dict has changed, has lost no item and is saved
TrackWrote ==
    /\ poll' = poll
    /\ now' = now
    /\ tracked_packages' # tracked_packages
    /\ Len(tracked_packages') >= Len(tracked_packages)
    /\ persisted' = tracked_packages'

\* after is what track_package makes of the record before: the token branch
\* keeps every key it does not write, both branches keep the name unless
\* the call gives one
TrackedFrom(before, after) ==
    /\ after.name \in {"parcel", DictGet(before.name)}
    /\ IF after.status = "pending" /\ after.message = "Tracking initiated"
       THEN /\ after.uuid \in Tokens
            /\ after.uuid_timestamp = isoformat(datetime(now))
            /\ after.location = before.location
            /\ after.origin = before.origin
            /\ after.destination = before.destination
            /\ after.eta_days_range = before.eta_days_range
            /\ after.eta_date_range = before.eta_date_range
            /\ after.expected_delivery = before.expected_delivery
            /\ after.carrier = before.carrier
            /\ after.days_in_transit = before.days_in_transit
       ELSE /\ after.uuid = None
            /\ after.uuid_timestamp = NoneTime

\* C17: every merge is computed from the dict as it is when the answer is
\* handled: the step writes the merged record of the id into the dict of
\* its pre-state, all other records as they are (uuid_timestamp in the
\* form the save gives it), in track_package, in the re-submission and in
\* the token poll.
C17_MergeReadsCurrent ==
    [][/\ PollMerged
            => tracked_packages' = save_convert(
                   Put(tracked_packages, poll.tracking_id,
                       shipment_merge(Get(tracked_packages, poll.tracking_id),
                                      poll'.resp.shipments[1])))
       /\ (poll.pc = "resubmit" /\ poll'.pc = "fetch")
            => tracked_packages' = save_convert(
                   Put(tracked_packages, poll.tracking_id,
                       [Get(tracked_packages, poll.tracking_id) EXCEPT
                           !.uuid = poll'.uuid,
                           !.uuid_timestamp = datetime(now)]))
       /\ TrackWrote
            => \E id \in Keys(tracked_packages') :
                  /\ \A i \in 1..Len(tracked_packages') :
                        tracked_packages'[i].k # id
                            => /\ i <= Len(tracked_packages)
                               /\ tracked_packages'[i]
                                      = save_convert(tracked_packages)[i]
                  /\ TrackedFrom(Get(tracked_packages, id),
                                 Get(tracked_packages', id))]_vars

\* a token poll has merged its shipment into a dict from which the id had
\* been removed while the poll was awaiting the answer: the record has no
\* uuid key, the merge read {} and not the record of before the await
C17_Witness ==
    /\ poll.pc = "loop"
    /\ ResolvesGet(poll.resp)
    /\ Has(tracked_packages, poll.tracking_id)
    /\ Get(tracked_packages, poll.tracking_id).uuid = Absent
    /\ Get(tracked_packages, poll.tracking_id).status = "in_transit"

\* C18 (as claimed): the for loop never ends by an exception of the dict
\* iterator, whatever track_package or remove_package did to the dict
\* while an update was awaiting.
C18_IterationSurvives ==
    [][(poll.pc = "loop" /\ poll'.pc = "failed")
          => poll'.resp.error # "RuntimeError"]_vars

\* C19 (as claimed): no step of a refresh asks for a further refresh.
C19_SaveRequestsNoRefresh ==
    [][(poll.pc \in {"resubmit", "fetch"} /\ poll'.pc # poll.pc)
          => (refresh_requested' => refresh_requested)]_vars

\* the status that ends the polling of a record
Final(package_data) == package_data.status \in {"delivered", "archived"}

\* C20 (as claimed): the for loop starts no update for a record that is
\* delivered or archived, and no step of the refresh changes or drops such
\* a record.
C20_FinalNotPolled ==
    [][/\ (poll.pc = "loop" /\ poll'.pc \in {"resubmit", "fetch"})
            => ~Final(Get(tracked_packages, poll'.tracking_id))
       /\ \A id \in TrackingIds :
            (/\ poll'.pc # poll.pc
             /\ Has(tracked_packages, id)
             /\ Final(Get(tracked_packages, id)))
                => /\ Has(tracked_packages', id)
                   /\ Get(tracked_packages', id)
                          = Get(save_convert(tracked_packages), id)]_vars

====
